---- MODULE Spec2Model ----
(***************************************************************************)
(* Model of src/lichess-analysis.py: run_player_filter_and_sampling, the   *)
(* single-pass scan of a PGN archive that accumulates one header dict per  *)
(* game, aggregates per-player rating statistics, samples the active       *)
(* players and writes the CSV.                                             *)
(*                                                                         *)
(* Text is modelled as sequences of one-character strings, so that int()   *)
(* and strptime() are computed from the characters.  A line of the stream  *)
(* is a record [kind, name, value]:                                        *)
(*   kind = "tag"     the line is  [name "value"]  with a non-empty value  *)
(*                    (it matches TAG_RE)                                  *)
(*   kind = "bracket" the line starts with '[' and does not match TAG_RE   *)
(*   kind = "moves"   the line starts with a move number, "1. e4 ..."      *)
(*   kind = "text"    any other line (blank line, white space, a result)   *)
(*                                                                         *)
(* The two companion programs are modelled beside it: the archive filter   *)
(* of src/trim_monthly_extract_by_time_control.py and the printer of       *)
(* src/test/validate-pgn-zst.py.  The state of each is one record, whose   *)
(* fields carry the names of the program's variables.                      *)
(***************************************************************************)
EXTENDS Integers, Sequences, FiniteSets, TLC

(***************************************************************************)
(* 1. CONFIGURATION (lines 20-30)                                          *)
(***************************************************************************)
TARGET_TIMECONTROL == <<"6", "0", "0", "+", "0">>

ALTERNATE_TIMECONTROL_1 == <<"6", "0", "0", "+", "5">>

ALTERNATE_TIMECONTROL_2 == <<"9", "0", "0", "+", "1", "0">>

MAX_RATING == 1000

(***************************************************************************)
(* Bounds of the model.                                                    *)
(***************************************************************************)
\* lines fed to one scan
MaxLines == 9

\* lines of a stream that are not tag lines (blank, move text, bad bracket)
MaxNoise == 1

\* MIN_GAMES_JANUARY is drawn from 1..MaxMinGames
MaxMinGames == 2

\* TARGET_SAMPLE_SIZE is drawn from 1..MaxSampleSize
MaxSampleSize == 2

\* games of a replayed archive
MaxGames == 3

\* lines of a stream given line by line, in any order
MaxStreamLines == 4

\* games of an archive the program is run on twice
MaxRerunGames == 2

\* lines of a stream given to the archive filter
MaxTrimLines == 5

\* lines of a stream given to the printer of the first games
MaxPrintLines == 6

(***************************************************************************)
(* Python values.                                                          *)
(***************************************************************************)
\* None, and the absent value of dict.get (no tag value is empty: TAG_RE
\* requires .+)
None == <<>>

\* float('inf') and float('-inf'), the "no data" marks of min/max rating
PosInf == 1000000

NegInf == -1000000

DigitChars == <<"0", "1", "2", "3", "4", "5", "6", "7", "8", "9">>

IsDigit(c) == \E i \in 1..10 : DigitChars[i] = c

DigitVal(c) == (CHOOSE i \in 1..10 : DigitChars[i] = c) - 1

AllDigits(s) == Len(s) > 0 /\ \A i \in 1..Len(s) : IsDigit(s[i])

RECURSIVE DecimalVal(_)
DecimalVal(s) ==
    IF Len(s) = 0 THEN 0
    ELSE 10 * DecimalVal(SubSeq(s, 1, Len(s) - 1)) + DigitVal(s[Len(s)])

\* int(s) for a str: an optional sign and decimal digits, ValueError otherwise.
\* [ok |-> FALSE] stands for the raised ValueError.
PyInt(s) ==
    LET signed == Len(s) > 0 /\ s[1] \in {"+", "-"}
        body   == IF signed THEN Tail(s) ELSE s
    IN  IF AllDigits(body)
        THEN [ok |-> TRUE,
              val |-> IF signed /\ s[1] = "-" THEN 0 - DecimalVal(body)
                      ELSE DecimalVal(body)]
        ELSE [ok |-> FALSE, val |-> 0]

DaysInMonth(y, m) ==
    IF m \in {4, 6, 9, 11} THEN 30
    ELSE IF m = 2
         THEN (IF (y % 4 = 0 /\ y % 100 # 0) \/ y % 400 = 0 THEN 29 ELSE 28)
         ELSE 31

\* datetime(y, m, d, H, M, S): the six fields, ordered as Python orders
\* datetimes (field by field, the year first)
DateTime(y, m, d, H, M, S) == <<y, m, d, H, M, S>>

\* a < b on datetimes
DtLess(a, b) ==
    \E i \in 1..6 : a[i] < b[i] /\ \A j \in 1..(i - 1) : a[j] = b[j]

\* a parser that yields 1970-01-01 00:00:00 whatever the two texts are
TimestampOrEpoch(date_str, time_str) == <<DateTime(1970, 1, 1, 0, 0, 0)>>

\* parse_pgn_timestamp: datetime.strptime(f"{date_str} {time_str}",
\* "%Y.%m.%d %H:%M:%S"), None on ValueError/TypeError.  A missing tag is
\* formatted as the text "None", which does not match the format.
parse_pgn_timestamp(date_str, time_str) ==
    LET num(s, i, j) == DecimalVal(SubSeq(s, i, j))
        dateShape == /\ Len(date_str) = 10
                     /\ AllDigits(SubSeq(date_str, 1, 4))
                     /\ date_str[5] = "."
                     /\ AllDigits(SubSeq(date_str, 6, 7))
                     /\ date_str[8] = "."
                     /\ AllDigits(SubSeq(date_str, 9, 10))
        timeShape == /\ Len(time_str) = 8
                     /\ AllDigits(SubSeq(time_str, 1, 2))
                     /\ time_str[3] = ":"
                     /\ AllDigits(SubSeq(time_str, 4, 5))
                     /\ time_str[6] = ":"
                     /\ AllDigits(SubSeq(time_str, 7, 8))
    IN  IF ~(dateShape /\ timeShape) THEN None
        ELSE LET y == num(date_str, 1, 4)
                 m == num(date_str, 6, 7)
                 d == num(date_str, 9, 10)
                 H == num(time_str, 1, 2)
                 M == num(time_str, 4, 5)
                 S == num(time_str, 7, 8)
             IN  IF /\ y >= 1
                    /\ m \in 1..12
                    /\ d >= 1 /\ d <= DaysInMonth(y, m)
                    /\ H <= 23 /\ M <= 59 /\ S <= 59
                 THEN <<DateTime(y, m, d, H, M, S)>>
                 ELSE None

(***************************************************************************)
(* 2. The tokenizer: TAG_RE and EVENT_RE (lines 33-34)                     *)
(***************************************************************************)
TagNames ==
    {"Event", "White", "Black", "UTCDate", "UTCTime", "WhiteElo", "BlackElo",
     "TimeControl"}

TagLine(n, v) == [kind |-> "tag", name |-> n, value |-> v]

\* the line "" (also last_processed_line before any line is read)
BlankLine == [kind |-> "text", name |-> "", value |-> None]

\* a line that starts with '[' and is no tag: [Event ""]
BadBracketLine == [kind |-> "bracket", name |-> "Event", value |-> None]

\* a tag test that lets every line starting with '[' through
AnyBracketLine(line) == line.kind \in {"tag", "bracket"}

TAG_RE(line) == line.kind = "tag"

EVENT_RE(line) == line.kind = "tag" /\ line.name = "Event"

StartsWithBracket(line) == line.kind \in {"tag", "bracket"}

(***************************************************************************)
(* The header dict of the game being read.  A dict over the tag names the  *)
(* scan reads: an absent key holds None.                                   *)
(***************************************************************************)
EmptyGame == [t \in TagNames |-> None]

Get(game, key) == game[key]

\* "if current_game:" -- a dict is true when it has a key
Truthy(game) == \E t \in TagNames : game[t] # None

\* current_game[tag_name] = tag_value
Put(game, line) == [game EXCEPT ![line.name] = line.value]

(***************************************************************************)
(* The player table (lines 78-88): a dict, which keeps its keys in the     *)
(* order of their insertion.  keys is that order, val the entries.         *)
(***************************************************************************)
DefaultStats ==
    [games |-> 0,
     min_rating |-> PosInf,
     max_rating |-> NegInf,
     rating_sum |-> 0,
     rating_count |-> 0,
     earliest_time |-> DateTime(2099, 1, 1, 0, 0, 0),
     latest_time |-> DateTime(1900, 1, 1, 0, 0, 0),
     earliest_rating |-> 0,
     latest_rating |-> 0]

EmptyTable == [keys |-> <<>>, val |-> [p \in {} |-> DefaultStats]]

Players(table) == {table.keys[i] : i \in 1..Len(table.keys)}

\* player_stats[player]: a defaultdict makes the entry on first access
Entry(table, player) ==
    IF player \in Players(table) THEN table.val[player] ELSE DefaultStats

Min2(a, b) == IF a <= b THEN a ELSE b

Max2(a, b) == IF a >= b THEN a ELSE b

\* UpdateStats without "stats['games'] += 1" (line 153)
UpdateStatsNoCount(table, player, rating, game_dt) ==
    LET stats == IF player \in {table.keys[i] : i \in 1..Len(table.keys)}
                 THEN table.val[player] ELSE DefaultStats
        s1 == [stats EXCEPT !.min_rating = IF @ <= rating THEN @ ELSE rating,
                            !.max_rating = IF @ >= rating THEN @ ELSE rating,
                            !.rating_sum = @ + rating,
                            !.rating_count = @ + 1]
    IN  [keys |-> IF player \in DOMAIN table.val THEN table.keys
                  ELSE Append(table.keys, player),
         val |-> [p \in DOMAIN table.val \cup {player} |->
                     IF p = player THEN s1 ELSE table.val[p]]]

\* UpdateStats with min_rating and max_rating overwritten by the rating of
\* the game instead of min() and max() (lines 154-155)
UpdateStatsLastRating(table, player, rating, game_dt) ==
    LET updated == UpdateStatsNoCount(table, player, rating, game_dt)
    IN  [updated EXCEPT !.val[player].games = @ + 1,
                        !.val[player].min_rating = rating,
                        !.val[player].max_rating = rating]

\* UpdateStats with the second time test (line 165) as an elif of the first
UpdateStatsElif(table, player, rating, game_dt) ==
    LET updated == UpdateStatsNoCount(table, player, rating, game_dt)
        s1 == [updated.val[player] EXCEPT !.games = @ + 1]
        s2 == IF DtLess(game_dt, s1.earliest_time)
              THEN [s1 EXCEPT !.earliest_time = game_dt,
                              !.earliest_rating = rating]
              ELSE IF DtLess(s1.latest_time, game_dt)
              THEN [s1 EXCEPT !.latest_time = game_dt,
                              !.latest_rating = rating]
              ELSE s1
    IN  [updated EXCEPT !.val[player] = s2]

\* UpdateStats with latest_time and latest_rating taken from every game,
\* without the test of line 165
UpdateStatsLatestIsLast(table, player, rating, game_dt) ==
    LET updated == UpdateStatsElif(table, player, rating, game_dt)
    IN  [updated EXCEPT !.val[player].latest_time = game_dt,
                        !.val[player].latest_rating = rating]

\* UpdateStats with rating_sum set to the rating of the game instead of
\* raised by it (line 158)
UpdateStatsSumIsLast(table, player, rating, game_dt) ==
    LET updated == UpdateStatsLatestIsLast(table, player, rating, game_dt)
        before == IF player \in DOMAIN table.val
                  THEN table.val[player] ELSE DefaultStats
        s2 == [updated.val[player] EXCEPT !.rating_sum = rating,
                                          !.latest_time = before.latest_time,
                                          !.latest_rating =
                                              before.latest_rating]
        s3 == IF DtLess(s2.latest_time, game_dt)
              THEN [s2 EXCEPT !.latest_time = game_dt,
                              !.latest_rating = rating]
              ELSE s2
    IN  [updated EXCEPT !.val[player] = s3]

\* the update of one side's player (lines 152-167; the same statements at
\* 171-186, 248-259 and 262-273)
UpdateStats(table, player, rating, game_dt) ==
    LET stats == Entry(table, player)
        s1 == [stats EXCEPT !.games = @ + 1,
                            !.min_rating = Min2(@, rating),
                            !.max_rating = Max2(@, rating),
                            !.rating_sum = @ + rating,
                            !.rating_count = @ + 1]
        s2 == IF DtLess(game_dt, s1.earliest_time)
              THEN [s1 EXCEPT !.earliest_time = game_dt,
                              !.earliest_rating = rating]
              ELSE s1
        s3 == IF DtLess(s2.latest_time, game_dt)
              THEN [s2 EXCEPT !.latest_time = game_dt,
                              !.latest_rating = rating]
              ELSE s2
    IN  [keys |-> IF player \in Players(table) THEN table.keys
                  ELSE Append(table.keys, player),
         val |-> [p \in Players(table) \cup {player} |->
                     IF p = player THEN s3 ELSE table.val[p]]]

\* the try block of lines 128-140 (and 226-238): both ratings are parsed
\* inside one try, so a ValueError on WhiteElo reaches the except branch
\* before BlackElo is read.  The result is <<white_rating, black_rating>>,
\* each None or <<int>>.
ParseRatings(white_rating_str, black_rating_str) ==
    LET w == PyInt(white_rating_str)
        b == PyInt(black_rating_str)
        positive(r) == IF r.val <= 0 THEN None ELSE <<r.val>>
    IN  IF white_rating_str # None /\ ~w.ok
        THEN <<None, None>>
        ELSE LET white_rating ==
                     IF white_rating_str # None THEN positive(w) ELSE None
             IN  IF black_rating_str # None /\ ~b.ok
                 THEN <<white_rating, None>>
                 ELSE <<white_rating,
                        IF black_rating_str # None THEN positive(b) ELSE None>>

\* a time-control test that also lets through a missing TimeControl and one
\* outside the configured three
AnyTimeControl ==
    {TARGET_TIMECONTROL, ALTERNATE_TIMECONTROL_1, ALTERNATE_TIMECONTROL_2,
     <<"3", "0", "0", "+", "0">>, None}

AcceptedTimeControls ==
    {TARGET_TIMECONTROL, ALTERNATE_TIMECONTROL_1, ALTERNATE_TIMECONTROL_2}

\* the aggregation of a completed header in the loop (lines 113-186)
ProcessGame(table, game) ==
    LET tc == Get(game, "TimeControl")
        ratings == ParseRatings(Get(game, "WhiteElo"), Get(game, "BlackElo"))
        white_rating == ratings[1]
        black_rating == ratings[2]
        game_dt == parse_pgn_timestamp(Get(game, "UTCDate"),
                                       Get(game, "UTCTime"))
        is_low_rating_game ==
            \/ (white_rating # None /\ white_rating[1] <= MAX_RATING)
            \/ (black_rating # None /\ black_rating[1] <= MAX_RATING)
        white_player == Get(game, "White")
        black_player == Get(game, "Black")
        afterWhite ==
            IF white_player # None /\ white_rating # None
            THEN UpdateStats(table, white_player, white_rating[1], game_dt[1])
            ELSE table
        afterBlack ==
            IF black_player # None /\ black_rating # None
            THEN UpdateStats(afterWhite, black_player, black_rating[1],
                             game_dt[1])
            ELSE afterWhite
    IN  IF tc \in AcceptedTimeControls
        THEN IF is_low_rating_game /\ game_dt # None THEN afterBlack
             ELSE table
        ELSE table

\* ProcessLastGame as it would be without lines 212-273: the game open at
\* the end of the stream is counted and not aggregated
DroppedLastGame(table, game) == table

\* the aggregation at the end of the stream with "games" raised once per game and player,
\* also when the player is on both sides
ProcessLastGameCountingOnce(table, game) ==
    LET after == ProcessGame(table, game)
        player == Get(game, "White")
    IN  IF /\ player # None
           /\ player = Get(game, "Black")
           /\ player \in Players(after)
           /\ after.val[player].games = Entry(table, player).games + 2
        THEN [after EXCEPT !.val[player].games = @ - 1]
        ELSE after

\* the aggregation at the end of the stream without the update of the
\* Black player (lines 261-273)
ProcessLastGameWhiteOnly(table, game) ==
    ProcessGame(table, [game EXCEPT !["Black"] = None])

\* the aggregation of the game still open at the end of the stream
\* (lines 214-273), the second copy of the statements above
ProcessLastGame(table, game) ==
    LET tc == Get(game, "TimeControl")
        ratings == ParseRatings(Get(game, "WhiteElo"), Get(game, "BlackElo"))
        white_rating == ratings[1]
        black_rating == ratings[2]
        game_dt == parse_pgn_timestamp(Get(game, "UTCDate"),
                                       Get(game, "UTCTime"))
        is_low_rating_game ==
            \/ (white_rating # None /\ white_rating[1] <= MAX_RATING)
            \/ (black_rating # None /\ black_rating[1] <= MAX_RATING)
        white_player == Get(game, "White")
        black_player == Get(game, "Black")
        afterWhite ==
            IF white_player # None /\ white_rating # None
            THEN UpdateStats(table, white_player, white_rating[1], game_dt[1])
            ELSE table
        afterBlack ==
            IF black_player # None /\ black_rating # None
            THEN UpdateStats(afterWhite, black_player, black_rating[1],
                             game_dt[1])
            ELSE afterWhite
    IN  IF tc \in AcceptedTimeControls
        THEN IF is_low_rating_game /\ game_dt # None THEN afterBlack
             ELSE table
        ELSE table

(***************************************************************************)
(* 4. Aggregation and sampling (lines 296-335)                             *)
(***************************************************************************)
\* every key of the table from position i on, whatever its statistics
AllPlayersListed(table, MIN_GAMES_JANUARY, i) ==
    SubSeq(table.keys, i, Len(table.keys))

\* the keys of grinders, in dict order (lines 297-303)
RECURSIVE ActivePlayerList(_, _, _)
ActivePlayerList(table, MIN_GAMES_JANUARY, i) ==
    IF i > Len(table.keys) THEN <<>>
    ELSE LET player == table.keys[i]
             stats == table.val[player]
             rest == ActivePlayerList(table, MIN_GAMES_JANUARY, i + 1)
         IN  IF stats.games >= MIN_GAMES_JANUARY /\ stats.min_rating # PosInf
             THEN <<player>> \o rest
             ELSE rest

\* k elements of the population drawn with replacement
SamplesWithReplacement(population, k) ==
    {[i \in 1..k |-> population[pos[i]]] :
        pos \in [1..k -> 1..Len(population)]}

\* the lists random.sample(population, k) can return: k elements at
\* distinct positions of the population, in any order
Samples(population, k) ==
    {[i \in 1..k |-> population[pos[i]]] :
        pos \in {f \in [1..k -> 1..Len(population)] :
                    \A i, j \in 1..k : i # j => f[i] # f[j]}}

\* the lists line 308-311 can bind to final_player_sample_keys
FinalPlayerSampleKeys(active_player_list, TARGET_SAMPLE_SIZE) ==
    IF Len(active_player_list) > TARGET_SAMPLE_SIZE
    THEN Samples(active_player_list, TARGET_SAMPLE_SIZE)
    ELSE {active_player_list}

\* round(a / b) for integers a >= 0, b > 0: to the nearest integer, a tie to
\* the even one
PyRound(a, b) ==
    LET q == a \div b
        r == a % b
    IN  IF 2 * r < b THEN q
        ELSE IF 2 * r > b THEN q + 1
        ELSE IF q % 2 = 0 THEN q ELSE q + 1

\* the CSV row of one sampled player (lines 321-334), as its seven fields
OutputRow(table, username) ==
    LET stats == table.val[username]
        average_rating ==
            IF stats.rating_count > 0
            THEN PyRound(stats.rating_sum, stats.rating_count) ELSE 0
    IN  [username |-> username,
         games |-> stats.games,
         min_rating |-> stats.min_rating,
         max_rating |-> stats.max_rating,
         average_rating |-> average_rating,
         earliest_rating |-> stats.earliest_rating,
         latest_rating |-> stats.latest_rating]

\* output_lines without its first element, the header line (lines 316-335)
OutputRows(table, keys) == [i \in 1..Len(keys) |-> OutputRow(table, keys[i])]

(***************************************************************************)
(* The lines fed to the scan.  The tags of a game come in the order of the *)
(* Lichess export (Roster), any of them possibly absent; a stream may      *)
(* start with tag lines that no start marker precedes.                     *)
(***************************************************************************)
Roster ==
    <<"Event", "White", "Black", "UTCDate", "UTCTime", "WhiteElo", "BlackElo",
      "TimeControl">>

PlayerP == <<"P">>

PlayerQ == <<"Q">>

PlayerR == <<"R">>

Date1 == <<"2", "0", "2", "4", ".", "0", "1", ".", "0", "1">>

Date2 == <<"2", "0", "2", "4", ".", "0", "1", ".", "0", "2">>

\* a date before the initial latest_time, datetime(1900, 1, 1)
Date1850 == <<"1", "8", "5", "0", ".", "0", "1", ".", "0", "1">>

\* a date after the initial earliest_time, datetime(2099, 1, 1)
Date2150 == <<"2", "1", "5", "0", ".", "0", "1", ".", "0", "1">>

\* month 13: strptime raises ValueError
DateBad == <<"2", "0", "2", "4", ".", "1", "3", ".", "0", "1">>

Time1 == <<"1", "0", ":", "0", "0", ":", "0", "0">>

\* hour 25: strptime raises ValueError
TimeBad == <<"2", "5", ":", "0", "0", ":", "0", "0">>

Elo900 == <<"9", "0", "0">>

Elo950 == <<"9", "5", "0">>

Elo1100 == <<"1", "1", "0", "0">>

EloAbc == <<"a", "b", "c">>

EloZero == <<"0">>

OtherTimeControl == <<"3", "0", "0", "+", "0">>

TagValues(n) ==
    CASE n = "Event" -> {<<"e">>}
      [] n = "White" -> {PlayerP}
      [] n = "Black" -> {PlayerP, PlayerQ}
      [] n = "UTCDate" -> {Date1, Date2, DateBad}
      [] n = "UTCTime" -> {Time1}
      [] n = "WhiteElo" -> {EloAbc, EloZero, Elo900, Elo1100}
      [] n = "BlackElo" -> {EloAbc, Elo950}
      [] n = "TimeControl" -> {TARGET_TIMECONTROL, OtherTimeControl}

\* a game of an archive, as the lines that carry its tags in roster order;
\* an absent tag (None) has no line
RECURSIVE GameLines(_, _)
GameLines(game, i) ==
    IF i > Len(Roster) THEN <<>>
    ELSE (IF game[Roster[i]] = None THEN <<>>
          ELSE <<TagLine(Roster[i], game[Roster[i]])>>)
         \o GameLines(game, i + 1)

GameOf(white, white_elo, black, black_elo, date, time, tc) ==
    [Event |-> <<"e">>, White |-> white, Black |-> black, UTCDate |-> date,
     UTCTime |-> time, WhiteElo |-> white_elo, BlackElo |-> black_elo,
     TimeControl |-> tc]

\* the games the replayed archives are made of
ArchiveGames ==
    {GameOf(PlayerP, Elo900, PlayerQ, b, Date1, Time1, TARGET_TIMECONTROL) :
        b \in {None, EloAbc}}
    \cup
    {GameOf(PlayerQ, w, PlayerP, Elo950, Date2, Time1, TARGET_TIMECONTROL) :
        w \in {None, EloZero, EloAbc, Elo1100}}
    \cup
    {GameOf(PlayerP, Elo900, PlayerQ, Elo950, Date2, Time1,
            ALTERNATE_TIMECONTROL_1),
     GameOf(PlayerP, Elo900, PlayerQ, Elo950, DateBad, Time1,
            ALTERNATE_TIMECONTROL_1),
     GameOf(PlayerP, Elo900, PlayerQ, Elo950, Date1, None,
            ALTERNATE_TIMECONTROL_1),
     GameOf(PlayerP, Elo900, PlayerQ, Elo950, Date1, Time1, OtherTimeControl),
     GameOf(PlayerP, Elo900, PlayerP, Elo950, Date1, Time1,
            ALTERNATE_TIMECONTROL_2)}
    \cup
    {GameOf(PlayerP, Elo1100, b, Elo1100, Date1, Time1,
            ALTERNATE_TIMECONTROL_2) : b \in {PlayerP, PlayerQ}}
    \cup
    {GameOf(PlayerR, Elo900, PlayerQ, Elo950, Date1, Time1,
            TARGET_TIMECONTROL)}

RECURSIVE ArchivesOf(_)
ArchivesOf(n) ==
    IF n = 0 THEN {<<>>}
    ELSE LET shorter == ArchivesOf(n - 1)
         IN  shorter \cup
             {GameLines(g, 1) \o a :
                 g \in ArchiveGames, a \in {x \in shorter : TRUE}}

\* the games of the archives whose scan alone is followed; some are dated
\* outside the two initial time bounds of an entry
ScanGames ==
    {GameOf(PlayerQ, w, PlayerP, Elo950, Date2, Time1, TARGET_TIMECONTROL) :
        w \in {None, EloAbc, Elo1100}}
    \cup
    {GameOf(PlayerP, Elo900, PlayerQ, Elo950, d, Time1,
            ALTERNATE_TIMECONTROL_1) :
        d \in {Date1, DateBad, Date1850, Date2150}}
    \cup
    {GameOf(PlayerP, Elo900, PlayerP, Elo950, Date1, Time1,
            ALTERNATE_TIMECONTROL_2),
     GameOf(PlayerP, Elo900, PlayerQ, Elo950, Date1, Time1, OtherTimeControl),
     GameOf(PlayerP, Elo1100, PlayerQ, Elo1100, Date1, Time1,
            ALTERNATE_TIMECONTROL_2)}
    \cup
    {GameOf(PlayerP, Elo900, PlayerQ, Elo950, Date1, t, TARGET_TIMECONTROL) :
        t \in {None, TimeBad}}
    \cup
    {GameOf(PlayerP, Elo900, PlayerQ, Elo950, None, Time1,
            TARGET_TIMECONTROL)}

RECURSIVE ScanArchivesOf(_)
ScanArchivesOf(n) ==
    IF n = 0 THEN {<<>>}
    ELSE LET shorter == ScanArchivesOf(n - 1)
         IN  shorter \cup
             {GameLines(g, 1) \o a :
                 g \in ScanGames, a \in {x \in shorter : TRUE}}

(***************************************************************************)
(* The archive filter, src/trim_monthly_extract_by_time_control.py.        *)
(***************************************************************************)
\* line 14: "900+10", "600+5", "600+0"
TARGET_TIMECONTROLS ==
    {ALTERNATE_TIMECONTROL_2, ALTERNATE_TIMECONTROL_1, TARGET_TIMECONTROL}

\* the move text of a game on one line: 1. e4 e5 1-0
MoveLine == [kind |-> "moves", name |-> "", value |-> None]

\* a line of one space
SpaceLine == [kind |-> "text", name |-> "", value |-> <<" ">>]

\* line 20: ^\d+\.
MOVES_START_RE(line) == line.kind = "moves"

\* line.strip(): a line of white space becomes the empty line; the other
\* lines of the model hold no white space at either end but their line end
Strip(line) ==
    IF /\ line.kind = "text"
       /\ \A i \in 1..Len(line.value) : line.value[i] = " "
    THEN BlankLine
    ELSE line

\* lines 51-60 and 70-81: the state when the loop is entered.  `stream` is
\* the whole input and `writes` the blocks written so far, each with the
\* value of game_count_total when it was written; the program reads neither.
TrimStart(stream) ==
    [pc |-> "start",
     stream |-> stream,
     text_input_stream |-> stream,
     line_number |-> 0,
     game_count_total |-> 0,
     game_count_filtered |-> 0,
     current_game_lines |-> <<>>,
     current_game_metadata |-> EmptyGame,
     keep_current_game |-> FALSE,
     text_output_stream |-> <<>>,
     writes |-> <<>>]

\* text_output_stream.write(''.join(block)); game_count_filtered += 1
TrimWrite(t, block) ==
    [t EXCEPT !.text_output_stream = @ \o block,
              !.writes = Append(@, [game |-> t.game_count_total,
                                    lines |-> block]),
              !.game_count_filtered = @ + 1]

\* one pass of the loop body (lines 84-135) on `line`
TrimLoopBody(t, line) ==
    LET line_stripped == Strip(line)
        t1 == [t EXCEPT !.line_number = @ + 1,
                        !.current_game_lines = Append(@, line)]
    IN  IF EVENT_RE(line_stripped)
        THEN LET t2 == IF t1.game_count_total > 0 /\ t1.keep_current_game
                       THEN TrimWrite(t1, SubSeq(t1.current_game_lines, 1,
                                          Len(t1.current_game_lines) - 1))
                       ELSE t1
             IN  [t2 EXCEPT !.current_game_lines = <<line>>,
                            !.current_game_metadata =
                                IF TAG_RE(line_stripped)
                                THEN Put(EmptyGame, line_stripped)
                                ELSE EmptyGame,
                            !.keep_current_game = FALSE,
                            !.game_count_total = @ + 1]
        ELSE IF StartsWithBracket(line_stripped)
        THEN IF TAG_RE(line_stripped)
             THEN [t1 EXCEPT !.current_game_metadata =
                                 Put(@, line_stripped),
                             !.keep_current_game =
                                 IF /\ line_stripped.name = "TimeControl"
                                    /\ line_stripped.value
                                           \in TARGET_TIMECONTROLS
                                 THEN TRUE ELSE @]
             ELSE t1
        ELSE IF MOVES_START_RE(line_stripped)
        THEN LET t2 == IF t1.keep_current_game
                       THEN TrimWrite(t1, t1.current_game_lines)
                       ELSE t1
             IN  [t2 EXCEPT !.current_game_lines = <<>>,
                            !.current_game_metadata = EmptyGame,
                            !.keep_current_game = FALSE]
        ELSE t1

\* lines 143-150: the last block, and the streams are closed
TrimAfterLoop(t) ==
    LET t1 == IF t.keep_current_game /\ t.current_game_lines # <<>>
              THEN TrimWrite(t, t.current_game_lines)
              ELSE t
    IN  [t1 EXCEPT !.pc = "done"]

(***************************************************************************)
(* The printer of the first games, src/test/validate-pgn-zst.py.           *)
(***************************************************************************)
\* line 8
TARGET_GAMES_TO_PRINT == 3

\* line.startswith('[Event ')
StartsWithEvent(line) ==
    line.kind \in {"tag", "bracket"} /\ line.name = "Event"

\* lines 23-31: the state when the loop is entered.  `stream` is the whole
\* input and `printed` the games printed so far; the program reads neither.
ValidateStart(stream) ==
    [pc |-> "start",
     stream |-> stream,
     text_stream |-> stream,
     current_game_lines |-> <<>>,
     games_printed |-> 0,
     printed |-> <<>>,
     summary |-> "none"]

\* one pass of the loop body (lines 35-60) on the line `raw`; pc "break"
\* says that the pass left the loop
ValidateLoopBody(v, raw) ==
    LET line == Strip(raw)
    IN  IF v.games_printed >= TARGET_GAMES_TO_PRINT
        THEN [v EXCEPT !.pc = "break"]
        ELSE IF StartsWithEvent(line)
        THEN IF v.current_game_lines # <<>>
             THEN LET v1 == [v EXCEPT !.printed =
                                          Append(@, v.current_game_lines),
                                      !.games_printed = @ + 1]
                  IN  IF v1.games_printed >= TARGET_GAMES_TO_PRINT
                      THEN [v1 EXCEPT !.pc = "break"]
                      ELSE [v1 EXCEPT !.current_game_lines = <<line>>]
             ELSE [v EXCEPT !.current_game_lines = <<line>>]
        ELSE IF line # BlankLine
        THEN [v EXCEPT !.current_game_lines = Append(@, line)]
        ELSE v

\* lines 62-73: what is printed once the loop is left
ValidateAfterLoop(v) ==
    [v EXCEPT !.pc = "done",
              !.summary =
                  IF v.games_printed = TARGET_GAMES_TO_PRINT THEN "success"
                  ELSE IF v.games_printed > 0 THEN "file_end"
                  ELSE "none"]

\* the output file: None while it does not exist, else <<its rows>>
NoFile == None

VARIABLES
    pc,                   \* where run_player_filter_and_sampling is
    result,               \* how it ended: "running", "returned", "raised"
    current_game,         \* the header dict being accumulated
    game_count,
    line_number,
    last_processed_line,
    player_stats,
    diag,                 \* what the except block prints (None: nothing)
    sampling,             \* the values bound in section 4 (None: not there)
    file,                 \* the output file
    cursor,               \* input: roster position of the last tag line fed
    noise,                \* input: lines fed that are not tag lines
    markers,              \* input: start markers fed so far
    archive,              \* input: the archive replayed (None: lines are free)
    todo,                 \* input: the lines of the archive not yet fed
    run,                  \* 1, or 2 in the second run over the same archive
    first,                \* the first run's sampling values and file
    passing,              \* history: aggregated headers that pass the
                          \*   time-control and the rating-ceiling filter
    qualifying,           \* history: those of them with a parsable timestamp
    all_valid,            \* history: every aggregated header so far had two
                          \*   names and two valid ratings
    contributions,        \* history: the updates made so far, in order, each
                          \*   as [player, rating, time]
    appeared,             \* history: the names seen as White or Black in an
                          \*   aggregated header that passes the time-control
                          \*   and the rating-ceiling filter
    trim,                 \* filter_games_by_time_control: its variables, its
                          \*   input stream and what it wrote
    validate              \* read_and_print_first_games: its variables, its
                          \*   input stream and what it printed

vars ==
    <<pc, result, current_game, game_count, line_number, last_processed_line,
      player_stats, diag, sampling, file, cursor, noise, markers, archive,
      todo, run, first, passing, qualifying, all_valid, contributions,
      appeared, trim, validate>>

scanVars ==
    <<current_game, game_count, line_number, last_processed_line,
      player_stats>>

inputVars == <<cursor, noise, markers, archive, todo, run, first>>

historyVars == <<passing, qualifying, all_valid, contributions, appeared>>

\* the companion programs, which run_player_filter_and_sampling never touches
toolVars == <<trim, validate>>

\* the variables of run_player_filter_and_sampling, which the companion
\* programs never touch
engineVars ==
    <<pc, result, scanVars, diag, sampling, file, inputVars, historyVars>>

(***************************************************************************)
(* What the claims call a valid rating, a qualifying game and a parsable   *)
(* timestamp, read off a header.                                           *)
(***************************************************************************)
\* a rating text that is an integer > 0
ValidRating(text) == text # None /\ PyInt(text).ok /\ PyInt(text).val > 0

RatingOf(text) == PyInt(text).val

BothSidesValid(game) ==
    /\ ValidRating(game["WhiteElo"]) /\ game["White"] # None
    /\ ValidRating(game["BlackElo"]) /\ game["Black"] # None

PassesTimeControl(game) == game["TimeControl"] \in AcceptedTimeControls

PassesRatingCeiling(game) ==
    \E side \in {"WhiteElo", "BlackElo"} :
        ValidRating(game[side]) /\ RatingOf(game[side]) <= MAX_RATING

ParsableTimestamp(game) ==
    parse_pgn_timestamp(game["UTCDate"], game["UTCTime"]) # None

\* the sides of `game` the aggregation updates: the header passes the
\* time-control filter, the rating filter and the timestamp check, and the
\* side has a name and a rating that the try block accepted
UpdatedSides(game) ==
    LET ratings == ParseRatings(game["WhiteElo"], game["BlackElo"])
        low(r) == r # None /\ r[1] <= MAX_RATING
    IN  IF /\ PassesTimeControl(game)
           /\ (low(ratings[1]) \/ low(ratings[2]))
           /\ ParsableTimestamp(game)
        THEN {side \in {"White", "Black"} :
                 /\ game[side] # None
                 /\ ratings[IF side = "White" THEN 1 ELSE 2] # None}
        ELSE {}

\* what the aggregation of `game` contributes, in the order of the updates:
\* one record per updated side
Contributions(game) ==
    LET ratings == ParseRatings(game["WhiteElo"], game["BlackElo"])
        game_dt == parse_pgn_timestamp(game["UTCDate"], game["UTCTime"])
        of(side) ==
            IF side \in UpdatedSides(game)
            THEN <<[player |-> game[side],
                    rating |-> ratings[IF side = "White" THEN 1 ELSE 2][1],
                    time |-> game_dt[1]]>>
            ELSE <<>>
    IN  of("White") \o of("Black")

\* the history after `game` went through the aggregation
Aggregated(game) ==
    /\ contributions' = contributions \o Contributions(game)
    /\ appeared' =
           IF PassesTimeControl(game) /\ PassesRatingCeiling(game)
           THEN appeared \cup ({game["White"], game["Black"]} \ {None})
           ELSE appeared
    /\ passing' =
           IF PassesTimeControl(game) /\ PassesRatingCeiling(game)
           THEN passing + 1 ELSE passing
    /\ qualifying' =
           IF /\ PassesTimeControl(game) /\ PassesRatingCeiling(game)
              /\ ParsableTimestamp(game)
           THEN qualifying + 1 ELSE qualifying
    /\ all_valid' = (all_valid /\ BothSidesValid(game))

\* run_player_filter_and_sampling before its first statement
InitEngine ==
    /\ pc = "start"
    /\ result = "running"
    /\ current_game = EmptyGame
    /\ game_count = 0
    /\ line_number = 0
    /\ last_processed_line = BlankLine
    /\ player_stats = EmptyTable
    /\ diag = None
    /\ sampling = None
    /\ file = NoFile
    /\ cursor = 0
    /\ noise = 0
    /\ markers = 0
    /\ run = 1
    /\ first = None
    /\ passing = 0
    /\ qualifying = 0
    /\ all_valid = TRUE
    /\ contributions = <<>>
    /\ appeared = {}

\* the same, with the companion programs at rest
InitProgram ==
    /\ InitEngine
    /\ trim = [TrimStart(<<>>) EXCEPT !.pc = "idle"]
    /\ validate = [ValidateStart(<<>>) EXCEPT !.pc = "idle"]

Init ==
    /\ InitProgram
    /\ archive = None
    /\ todo = <<>>

\* lines 70-73: the archive does not exist
FileNotFound ==
    /\ pc = "start"
    /\ pc' = "not_found"
    /\ result' = "returned"
    /\ UNCHANGED <<scanVars, diag, sampling, file, inputVars, historyVars>>
    /\ UNCHANGED toolVars

\* lines 75-101: the archive exists; the reader is set up
OpenArchive ==
    /\ pc = "start"
    /\ pc' = "scan"
    /\ UNCHANGED <<result, scanVars, diag, sampling, file, inputVars,
                   historyVars>>
    /\ UNCHANGED toolVars

\* one pass of the loop body (lines 104-209) on `line`
LoopBody(line) ==
    /\ line_number' = line_number + 1
    /\ last_processed_line' = line
    /\ IF EVENT_RE(line)
       THEN /\ IF Truthy(current_game)
               THEN /\ game_count' = game_count + 1
                    /\ player_stats' = ProcessGame(player_stats, current_game)
                    /\ Aggregated(current_game)
               ELSE UNCHANGED <<game_count, player_stats, historyVars>>
            /\ current_game' =
                   IF TAG_RE(line) THEN Put(EmptyGame, line) ELSE EmptyGame
       ELSE /\ UNCHANGED <<game_count, player_stats, historyVars>>
            /\ current_game' =
                   IF StartsWithBracket(line) /\ TAG_RE(line)
                   THEN Put(current_game, line)
                   ELSE current_game

\* the stream yields a tag line
ReadLine ==
    /\ pc = "scan"
    /\ archive = None
    /\ line_number < MaxLines
    /\ \E i \in 1..Len(Roster) :
         /\ i = 1 \/ i > cursor
         /\ \E v \in TagValues(Roster[i]) :
              /\ LoopBody(TagLine(Roster[i], v))
              /\ cursor' = i
              /\ markers' = IF i = 1 THEN markers + 1 ELSE markers
    /\ UNCHANGED <<pc, result, diag, sampling, file, noise, archive, todo,
                   run, first>>
    /\ UNCHANGED toolVars

\* the stream yields a line that is no tag line
ReadNoise ==
    /\ pc = "scan"
    /\ archive = None
    /\ line_number < MaxLines
    /\ noise < MaxNoise
    /\ \E line \in {BlankLine, BadBracketLine} : LoopBody(line)
    /\ noise' = noise + 1
    /\ UNCHANGED <<pc, result, diag, sampling, file, cursor, markers, archive,
                   todo, run, first>>
    /\ UNCHANGED toolVars

\* the stream yields the next line of the replayed archive
ReplayLine ==
    /\ pc = "scan"
    /\ archive # None
    /\ todo # <<>>
    /\ LoopBody(Head(todo))
    /\ todo' = Tail(todo)
    /\ markers' = IF EVENT_RE(Head(todo)) THEN markers + 1 ELSE markers
    /\ UNCHANGED <<pc, result, diag, sampling, file, cursor, noise, archive,
                   run, first>>
    /\ UNCHANGED toolVars

\* the stream is exhausted: the loop ends and the last game is processed
\* (lines 211-273)
EndOfStream ==
    /\ pc = "scan"
    /\ todo = <<>>
    /\ pc' = "scanned"
    /\ IF Truthy(current_game)
       THEN /\ game_count' = game_count + 1
            /\ player_stats' = ProcessLastGame(player_stats, current_game)
            /\ Aggregated(current_game)
       ELSE UNCHANGED <<game_count, player_stats, historyVars>>
    /\ UNCHANGED <<result, current_game, line_number, last_processed_line,
                   diag, sampling, file, inputVars>>
    /\ UNCHANGED toolVars

\* a fault that is reported while the run goes on to sampling and writing
ReadFaultSalvaged ==
    /\ pc = "scan"
    /\ pc' = "scanned"
    /\ diag' = <<[last_processed_line |-> last_processed_line,
                  line_number |-> line_number,
                  current_game |-> current_game]>>
    /\ UNCHANGED <<result, scanVars, sampling, file, inputVars, historyVars>>
    /\ UNCHANGED toolVars

\* reading the next line raises (a corrupt frame, an I/O error): the except
\* block prints the snapshot and returns (lines 275-285)
ReadFault ==
    /\ pc = "scan"
    /\ pc' = "fatal"
    /\ diag' = <<[last_processed_line |-> last_processed_line,
                  line_number |-> line_number,
                  current_game |-> current_game]>>
    /\ result' = "returned"
    /\ UNCHANGED <<scanVars, sampling, file, inputVars, historyVars>>
    /\ UNCHANGED toolVars

\* a sampling step that keeps grinders as the table
SampleKeepingGrinders ==
    /\ pc = "scanned"
    /\ \E MIN_GAMES_JANUARY \in 1..MaxMinGames,
          TARGET_SAMPLE_SIZE \in 1..MaxSampleSize :
         LET active_player_list ==
                 ActivePlayerList(player_stats, MIN_GAMES_JANUARY, 1)
             grinders ==
                 [keys |-> active_player_list,
                  val |-> [p \in {active_player_list[i] :
                                     i \in 1..Len(active_player_list)} |->
                              player_stats.val[p]]]
         IN  /\ player_stats' = grinders
             /\ \E final_player_sample_keys \in
                    FinalPlayerSampleKeys(active_player_list,
                                          TARGET_SAMPLE_SIZE) :
                  sampling' =
                    <<[MIN_GAMES_JANUARY |-> MIN_GAMES_JANUARY,
                       TARGET_SAMPLE_SIZE |-> TARGET_SAMPLE_SIZE,
                       active_player_list |-> active_player_list,
                       final_player_sample_keys |-> final_player_sample_keys,
                       output_rows |->
                           OutputRows(player_stats,
                                      final_player_sample_keys)]>>
    /\ pc' = "sampled"
    /\ UNCHANGED <<result, current_game, game_count, line_number,
                   last_processed_line, diag, file, inputVars, historyVars>>
    /\ UNCHANGED toolVars

\* section 4 up to the output lines (lines 296-335); the two thresholds are
\* first read here
Sample ==
    /\ pc = "scanned"
    /\ \E MIN_GAMES_JANUARY \in 1..MaxMinGames,
          TARGET_SAMPLE_SIZE \in 1..MaxSampleSize :
         LET active_player_list ==
                 ActivePlayerList(player_stats, MIN_GAMES_JANUARY, 1)
         IN  /\ first # None =>
                  /\ MIN_GAMES_JANUARY = first[1].MIN_GAMES_JANUARY
                  /\ TARGET_SAMPLE_SIZE = first[1].TARGET_SAMPLE_SIZE
             /\ \E final_player_sample_keys \in
                    FinalPlayerSampleKeys(active_player_list,
                                          TARGET_SAMPLE_SIZE) :
                  sampling' =
                    <<[MIN_GAMES_JANUARY |-> MIN_GAMES_JANUARY,
                       TARGET_SAMPLE_SIZE |-> TARGET_SAMPLE_SIZE,
                       active_player_list |-> active_player_list,
                       final_player_sample_keys |-> final_player_sample_keys,
                       output_rows |->
                           OutputRows(player_stats,
                                      final_player_sample_keys)]>>
    /\ pc' = "sampled"
    /\ UNCHANGED <<result, scanVars, diag, file, inputVars, historyVars>>
    /\ UNCHANGED toolVars

\* a writing step that leaves the file alone when there is no row to write
WriteSkippedWhenEmpty ==
    /\ pc = "sampled"
    /\ \E ok \in BOOLEAN :
         /\ pc' = IF ok THEN "written" ELSE "write_error"
         /\ file' = IF ok /\ sampling[1].output_rows # <<>>
                    THEN <<sampling[1].output_rows>> ELSE file
    /\ result' = "returned"
    /\ UNCHANGED <<scanVars, diag, sampling, inputVars, historyVars>>
    /\ UNCHANGED toolVars

\* lines 338-345: the file is opened for writing and written, or open raises
\* IOError, which is printed
WriteOutput ==
    /\ pc = "sampled"
    /\ \E ok \in BOOLEAN :
         /\ pc' = IF ok THEN "written" ELSE "write_error"
         /\ file' = IF ok THEN <<sampling[1].output_rows>> ELSE file
    /\ result' = "returned"
    /\ UNCHANGED <<scanVars, diag, sampling, inputVars, historyVars>>
    /\ UNCHANGED toolVars

\* the program is started again on the same archive, with the same
\* configuration, after a run that wrote its output
RunAgain ==
    /\ pc = "written"
    /\ run = 1
    /\ archive # None
    /\ run' = 2
    /\ first' = <<[MIN_GAMES_JANUARY |-> sampling[1].MIN_GAMES_JANUARY,
                   TARGET_SAMPLE_SIZE |-> sampling[1].TARGET_SAMPLE_SIZE,
                   output_rows |-> file[1]]>>
    /\ todo' = archive[1]
    /\ pc' = "start"
    /\ result' = "running"
    /\ current_game' = EmptyGame
    /\ game_count' = 0
    /\ line_number' = 0
    /\ last_processed_line' = BlankLine
    /\ player_stats' = EmptyTable
    /\ diag' = None
    /\ sampling' = None
    /\ markers' = 0
    /\ passing' = 0
    /\ qualifying' = 0
    /\ all_valid' = TRUE
    /\ contributions' = <<>>
    /\ appeared' = {}
    /\ UNCHANGED <<file, cursor, noise, archive>>
    /\ UNCHANGED toolVars

\* a game with a time control outside the accepted ones
ExtraGame ==
    GameOf(PlayerP, Elo900, PlayerQ, Elo950, Date1, Time1, OtherTimeControl)

\* a scan that reached the end of its stream is followed by a second scan,
\* of the same stream with ExtraGame after it
ScanExtended ==
    /\ pc = "scanned"
    /\ run = 1
    /\ archive # None
    /\ run' = 2
    /\ first' = <<[relation |-> "extended",
                   stream |-> archive[1],
                   player_stats |-> player_stats,
                   game_count |-> game_count]>>
    /\ archive' = <<archive[1] \o GameLines(ExtraGame, 1)>>
    /\ todo' = archive[1] \o GameLines(ExtraGame, 1)
    /\ pc' = "start"
    /\ result' = "running"
    /\ current_game' = EmptyGame
    /\ game_count' = 0
    /\ line_number' = 0
    /\ last_processed_line' = BlankLine
    /\ player_stats' = EmptyTable
    /\ diag' = None
    /\ sampling' = None
    /\ markers' = 0
    /\ passing' = 0
    /\ qualifying' = 0
    /\ all_valid' = TRUE
    /\ contributions' = <<>>
    /\ appeared' = {}
    /\ UNCHANGED <<file, cursor, noise>>
    /\ UNCHANGED toolVars

\* the games of a stream that starts with a start marker: the lines from
\* each start marker up to the next
RECURSIVE SplitGames(_)
SplitGames(stream) ==
    IF stream = <<>> THEN <<>>
    ELSE LET later == {i \in 2..Len(stream) : EVENT_RE(stream[i])}
             next == IF later = {} THEN Len(stream) + 1
                     ELSE CHOOSE i \in later : \A j \in later : i <= j
         IN  <<SubSeq(stream, 1, next - 1)>>
             \o SplitGames(SubSeq(stream, next, Len(stream)))

RECURSIVE Flatten(_)
Flatten(games) ==
    IF games = <<>> THEN <<>> ELSE Head(games) \o Flatten(Tail(games))

\* the streams that hold the games of `stream` in another order
Reorderings(stream) ==
    LET games == SplitGames(stream)
        n == Len(games)
        orders == {f \in [1..n -> 1..n] :
                      \A i, j \in 1..n : i # j => f[i] # f[j]}
    IN  {Flatten([i \in 1..n |-> games[f[i]]]) : f \in orders} \ {stream}

\* a scan that reached the end of its stream is followed by a second scan,
\* of the same games in another order
ScanReordered ==
    /\ pc = "scanned"
    /\ run = 1
    /\ archive # None
    /\ \E other \in Reorderings(archive[1]) :
         /\ archive' = <<other>>
         /\ todo' = other
    /\ run' = 2
    /\ first' = <<[relation |-> "reordered",
                   stream |-> archive[1],
                   player_stats |-> player_stats,
                   game_count |-> game_count]>>
    /\ pc' = "start"
    /\ result' = "running"
    /\ current_game' = EmptyGame
    /\ game_count' = 0
    /\ line_number' = 0
    /\ last_processed_line' = BlankLine
    /\ player_stats' = EmptyTable
    /\ diag' = None
    /\ sampling' = None
    /\ markers' = 0
    /\ passing' = 0
    /\ qualifying' = 0
    /\ all_valid' = TRUE
    /\ contributions' = <<>>
    /\ appeared' = {}
    /\ UNCHANGED <<file, cursor, noise>>
    /\ UNCHANGED toolVars

Next ==
    \/ FileNotFound
    \/ OpenArchive
    \/ ReadLine
    \/ ReadNoise
    \/ EndOfStream
    \/ ReadFault
    \/ Sample
    \/ WriteOutput

Spec == Init /\ [][Next]_vars

\* the scan of an archive given as a whole, of at most MaxGames games
InitReplay ==
    /\ InitProgram
    /\ \E a \in ArchivesOf(MaxGames) :
         /\ archive = <<a>>
         /\ todo = a

NextReplay ==
    \/ FileNotFound
    \/ OpenArchive
    \/ ReplayLine
    \/ EndOfStream
    \/ ReadFault
    \/ Sample
    \/ WriteOutput

SpecReplay == InitReplay /\ [][NextReplay]_vars

\* the scan alone, up to its end or its fault, of an archive of at most
\* MaxGames games
InitScan ==
    /\ InitProgram
    /\ \E a \in ScanArchivesOf(MaxGames) :
         /\ archive = <<a>>
         /\ todo = a

NextScan ==
    \/ FileNotFound
    \/ OpenArchive
    \/ ReplayLine
    \/ EndOfStream
    \/ ReadFault

SpecScan == InitScan /\ [][NextScan]_vars

\* the lines of the streams that are given line by line: start markers,
\* tags that repeat with another value, and lines that are no tags
StreamLines ==
    {TagLine("Event", <<"e">>), TagLine("White", PlayerP),
     TagLine("White", PlayerQ), TagLine("TimeControl", TARGET_TIMECONTROL),
     BlankLine, BadBracketLine}

\* the streams of at most n such lines
RECURSIVE StreamsOf(_)
StreamsOf(n) ==
    IF n = 0 THEN {<<>>}
    ELSE LET shorter == StreamsOf(n - 1)
         IN  shorter \cup
             {<<line>> \o a : line \in StreamLines,
                              a \in {x \in shorter : TRUE}}

\* the scan of a stream of at most MaxStreamLines lines in any order
InitLines ==
    /\ InitProgram
    /\ \E a \in StreamsOf(MaxStreamLines) :
         /\ archive = <<a>>
         /\ todo = a

SpecLines == InitLines /\ [][NextScan]_vars

\* two runs of the program over one archive of at most MaxRerunGames games
InitRerun ==
    /\ InitProgram
    /\ \E a \in ArchivesOf(MaxRerunGames) :
         /\ archive = <<a>>
         /\ todo = a

NextRerun == NextReplay \/ RunAgain

SpecRerun == InitRerun /\ [][NextRerun]_vars

\* two scans, the second of a stream related to the first one's, which has
\* at most MaxRerunGames games
InitTwoScans ==
    /\ InitProgram
    /\ \E a \in ScanArchivesOf(MaxRerunGames) :
         /\ archive = <<a>>
         /\ todo = a

NextTwoScans == NextScan \/ ScanExtended \/ ScanReordered

SpecTwoScans == InitTwoScans /\ [][NextTwoScans]_vars

(***************************************************************************)
(* The archive filter: filter_games_by_time_control.                       *)
(***************************************************************************)
\* lines 44-46: the archive does not exist
TrimFileNotFound ==
    /\ trim.pc = "start"
    /\ trim' = [trim EXCEPT !.pc = "not_found"]
    /\ UNCHANGED <<engineVars, validate>>

\* lines 48-81: the archive exists; both streams are set up
TrimOpen ==
    /\ trim.pc = "start"
    /\ trim' = [trim EXCEPT !.pc = "scan"]
    /\ UNCHANGED <<engineVars, validate>>

\* the stream yields its next line (lines 83-141)
TrimReadLine ==
    /\ trim.pc = "scan"
    /\ trim.text_input_stream # <<>>
    /\ trim' = TrimLoopBody([trim EXCEPT !.text_input_stream = Tail(@)],
                            Head(trim.text_input_stream))
    /\ UNCHANGED <<engineVars, validate>>

\* the stream is exhausted (lines 143-150)
TrimEndOfStream ==
    /\ trim.pc = "scan"
    /\ trim.text_input_stream = <<>>
    /\ trim' = TrimAfterLoop(trim)
    /\ UNCHANGED <<engineVars, validate>>

\* reading or writing raises: the except block prints the error and returns
\* (lines 152-158)
TrimFault ==
    /\ trim.pc = "scan"
    /\ trim' = [trim EXCEPT !.pc = "fatal"]
    /\ UNCHANGED <<engineVars, validate>>

\* the lines of the streams given to the filter
TrimLines ==
    {TagLine("Event", <<"e">>), TagLine("White", PlayerP),
     TagLine("TimeControl", ALTERNATE_TIMECONTROL_1),
     TagLine("TimeControl", OtherTimeControl), MoveLine, BlankLine}

\* the streams of at most n lines of `alphabet`
RECURSIVE LinesOf(_, _)
LinesOf(alphabet, n) ==
    IF n = 0 THEN {<<>>}
    ELSE LET shorter == LinesOf(alphabet, n - 1)
         IN  shorter \cup
             {<<line>> \o a : line \in alphabet,
                              a \in {x \in shorter : TRUE}}

\* the engine and the printer at rest
ToolsOnly ==
    /\ InitEngine
    /\ archive = None
    /\ todo = <<>>

InitTrim ==
    /\ ToolsOnly
    /\ \E a \in LinesOf(TrimLines, MaxTrimLines) : trim = TrimStart(a)
    /\ validate = [ValidateStart(<<>>) EXCEPT !.pc = "idle"]

NextTrim ==
    \/ TrimFileNotFound
    \/ TrimOpen
    \/ TrimReadLine
    \/ TrimEndOfStream
    \/ TrimFault

SpecTrim == InitTrim /\ [][NextTrim]_vars

(***************************************************************************)
(* The printer of the first games: read_and_print_first_games.             *)
(***************************************************************************)
\* lines 17-19: the archive does not exist
ValidateFileNotFound ==
    /\ validate.pc = "start"
    /\ validate' = [validate EXCEPT !.pc = "not_found"]
    /\ UNCHANGED <<engineVars, trim>>

\* lines 21-31: the archive exists; the reader is set up
ValidateOpen ==
    /\ validate.pc = "start"
    /\ validate' = [validate EXCEPT !.pc = "scan"]
    /\ UNCHANGED <<engineVars, trim>>

\* the stream yields its next line (lines 34-60); a pass that breaks goes on
\* to the lines after the loop (lines 62-73)
ValidateReadLine ==
    /\ validate.pc = "scan"
    /\ validate.text_stream # <<>>
    /\ LET v == ValidateLoopBody(
                    [validate EXCEPT !.text_stream = Tail(@)],
                    Head(validate.text_stream))
       IN  validate' = IF v.pc = "break" THEN ValidateAfterLoop(v) ELSE v
    /\ UNCHANGED <<engineVars, trim>>

\* the stream is exhausted: the loop ends (lines 62-73)
ValidateEndOfStream ==
    /\ validate.pc = "scan"
    /\ validate.text_stream = <<>>
    /\ validate' = ValidateAfterLoop(validate)
    /\ UNCHANGED <<engineVars, trim>>

\* reading raises: the except block prints the error (lines 75-76)
ValidateFault ==
    /\ validate.pc = "scan"
    /\ validate' = [validate EXCEPT !.pc = "error"]
    /\ UNCHANGED <<engineVars, trim>>

\* the lines of the streams given to the printer
PrintLines ==
    {TagLine("Event", <<"e">>), TagLine("White", PlayerP), MoveLine,
     BlankLine, SpaceLine}

InitValidate ==
    /\ ToolsOnly
    /\ trim = [TrimStart(<<>>) EXCEPT !.pc = "idle"]
    /\ \E a \in LinesOf(PrintLines, MaxPrintLines) :
         validate = ValidateStart(a)

NextValidate ==
    \/ ValidateFileNotFound
    \/ ValidateOpen
    \/ ValidateReadLine
    \/ ValidateEndOfStream
    \/ ValidateFault

SpecValidate == InitValidate /\ [][NextValidate]_vars

(***************************************************************************)
(* Vocabulary of the properties.                                           *)
(***************************************************************************)
Games(table, player) == Entry(table, player).games

RECURSIVE SumGames(_, _)
SumGames(table, i) ==
    IF i > Len(table.keys) THEN 0
    ELSE table.val[table.keys[i]].games + SumGames(table, i + 1)

\* sum(PlayerStats.games) over the table
TotalGames(table) == SumGames(table, 1)

AllNames == {PlayerP, PlayerQ, PlayerR}

(***************************************************************************)
(* C1.  The game whose header is still open when the stream ends is        *)
(* counted in game_count exactly once and goes through the aggregation     *)
(* exactly once: the step that ends the stream adds one to game_count,     *)
(* leaves the table as one application of the loop's aggregation to the    *)
(* open header leaves it, and adds to each player's games one per side of  *)
(* the open game that the aggregation updates.  With no game open, count   *)
(* and table stay as they are.                                             *)
(***************************************************************************)
C1_LastGameAggregatedOnce ==
    [][(pc = "scan" /\ pc' = "scanned") =>
         IF Truthy(current_game)
         THEN /\ game_count' = game_count + 1
              /\ player_stats' = ProcessGame(player_stats, current_game)
              /\ \A p \in AllNames :
                   Games(player_stats', p) =
                       Games(player_stats, p)
                       + Cardinality({side \in UpdatedSides(current_game) :
                                         current_game[side] = p})
         ELSE /\ game_count' = game_count
              /\ player_stats' = player_stats]_vars

\* the stream ended on an open game, opened by a start marker, whose two
\* sides were both aggregated
C1_Witness ==
    /\ pc = "scanned"
    /\ current_game["Event"] # None
    /\ UpdatedSides(current_game) = {"White", "Black"}
    /\ game_count = 1
    /\ TotalGames(player_stats) = 2

(***************************************************************************)
(* C2.  After the scan game_count equals the number of start markers of    *)
(* the stream, whatever line the stream begins with.                       *)
(***************************************************************************)
C2_GameCountEqualsMarkers == pc = "scanned" => game_count = markers

(***************************************************************************)
(* C3.  A game with an accepted time control, a parsable timestamp and     *)
(* both names, in which one side's rating is not a number and the other    *)
(* side's is a valid integer no greater than the ceiling: when it is       *)
(* aggregated, the valid side's player gains exactly one game and the      *)
(* other side's player (if another) is left as it was, whichever side      *)
(* carries the malformed rating.                                           *)
(***************************************************************************)
EloTag(side) == IF side = "White" THEN "WhiteElo" ELSE "BlackElo"

NonNumeric(text) == text # None /\ ~PyInt(text).ok

OneSideMalformed(game, bad, good) ==
    /\ PassesTimeControl(game)
    /\ ParsableTimestamp(game)
    /\ game["White"] # None
    /\ game["Black"] # None
    /\ NonNumeric(game[EloTag(bad)])
    /\ ValidRating(game[EloTag(good)])
    /\ RatingOf(game[EloTag(good)]) <= MAX_RATING

C3_ValidSideStillCounts ==
    [][\A bad \in {"White", "Black"} :
         LET good == IF bad = "White" THEN "Black" ELSE "White"
         IN  (/\ game_count' = game_count + 1
              /\ OneSideMalformed(current_game, bad, good))
             => /\ Games(player_stats', current_game[good]) =
                       Games(player_stats, current_game[good]) + 1
                /\ current_game[bad] # current_game[good] =>
                       Entry(player_stats', current_game[bad]) =
                           Entry(player_stats, current_game[bad])]_vars

(***************************************************************************)
(* C4.  As claimed: when every aggregated game has two names and two valid *)
(* ratings, after the scan the games of all table entries sum to twice the *)
(* number of games that pass the time-control and rating-ceiling filters.  *)
(***************************************************************************)
C4_TwicePassingGames ==
    (pc = "scanned" /\ all_valid) => TotalGames(player_stats) = 2 * passing

(***************************************************************************)
(* C4, amended.  When every aggregated game has two names and two valid    *)
(* ratings, the games of all table entries sum to twice the number of      *)
(* aggregated games that pass the time-control filter and the              *)
(* rating-ceiling filter and carry a parsable timestamp.                   *)
(***************************************************************************)
C4_TwiceQualifyingGames ==
    all_valid => TotalGames(player_stats) = 2 * qualifying

\* a scan of three games with two valid sides each: all pass both filters,
\* one has no parsable timestamp
C4_Witness ==
    /\ pc = "scanned"
    /\ all_valid
    /\ game_count = 3
    /\ passing = 3
    /\ qualifying = 2

(***************************************************************************)
(* C5.  The three-game stream (a) P as White rated 900 at T1, (b) P as     *)
(* Black rated 950 at T2 > T1, both with an accepted time control and an   *)
(* opponent without a valid rating (absent, not a number, or not above 0), *)
(* (c) a game with a time control outside the accepted set: after the scan *)
(* game_count is 3 and the table holds exactly P, with games 2, min_rating *)
(* 900, max_rating 950, earliest_rating 900 and latest_rating 950.         *)
(***************************************************************************)
EndToEndArchives ==
    {GameLines(a, 1) \o GameLines(b, 1) \o GameLines(c, 1) :
        a \in {GameOf(PlayerP, Elo900, PlayerQ, x, Date1, Time1,
                      TARGET_TIMECONTROL) : x \in {None, EloAbc}},
        b \in {GameOf(PlayerQ, x, PlayerP, Elo950, Date2, Time1,
                      TARGET_TIMECONTROL) : x \in {None, EloZero, EloAbc}},
        c \in {GameOf(PlayerP, Elo900, PlayerQ, Elo950, Date1, Time1,
                      OtherTimeControl)}}

C5_EndToEndExample ==
    (pc = "scanned" /\ archive # None /\ archive[1] \in EndToEndArchives)
    => /\ game_count = 3
       /\ player_stats.keys = <<PlayerP>>
       /\ player_stats.val[PlayerP].games = 2
       /\ player_stats.val[PlayerP].min_rating = 900
       /\ player_stats.val[PlayerP].max_rating = 950
       /\ player_stats.val[PlayerP].earliest_rating = 900
       /\ player_stats.val[PlayerP].latest_rating = 950

\* the filtered population of section 4: the players of the table with at
\* least min_games games and a defined min_rating
FilteredPopulation(table, min_games) ==
    {p \in Players(table) :
        /\ table.val[p].games >= min_games
        /\ table.val[p].min_rating # PosInf}

(***************************************************************************)
(* C6.  Whatever the table, the threshold and the target sample size: the  *)
(* number of output rows is the size of the filtered population when that  *)
(* size is at most the target sample size, and the target sample size      *)
(* otherwise; no two output rows are of the same player; the written file  *)
(* holds these rows.                                                       *)
(***************************************************************************)
C6_RowCountAndNoDuplicates ==
    sampling # None =>
        LET s == sampling[1]
            population ==
                FilteredPopulation(player_stats, s.MIN_GAMES_JANUARY)
            rows == s.output_rows
        IN  /\ Len(rows) =
                   IF Cardinality(population) <= s.TARGET_SAMPLE_SIZE
                   THEN Cardinality(population)
                   ELSE s.TARGET_SAMPLE_SIZE
            /\ \A i, j \in 1..Len(rows) :
                   rows[i].username = rows[j].username => i = j
            /\ pc = "written" => file = <<rows>>

\* two rows were drawn from a filtered population of three players and
\* written
C6_Witness ==
    /\ pc = "written"
    /\ sampling[1].TARGET_SAMPLE_SIZE = 2
    /\ Len(sampling[1].active_player_list) = 3
    /\ Len(file[1]) = 2

(***************************************************************************)
(* C7.  Every player of an output row, sampled or written, is a key of the *)
(* player table, has at least the minimum number of games, and has a       *)
(* min_rating that is not the sentinel the entry starts with.              *)
(***************************************************************************)
C7_OutputWithinFilteredPopulation ==
    sampling # None =>
        LET s == sampling[1]
            written == IF pc = "written" THEN file[1] ELSE <<>>
        IN  \A rows \in {s.output_rows, written} :
                \A i \in 1..Len(rows) :
                    LET p == rows[i].username
                    IN  /\ p \in Players(player_stats)
                        /\ Games(player_stats, p) >= s.MIN_GAMES_JANUARY
                        /\ player_stats.val[p].min_rating # PosInf
                        /\ rows[i].games >= s.MIN_GAMES_JANUARY
                        /\ rows[i].min_rating # PosInf

\* a player of the table is below the threshold and the output, which is
\* not empty, was written
C7_Witness ==
    /\ pc = "written"
    /\ \E p \in Players(player_stats) :
           Games(player_stats, p) < sampling[1].MIN_GAMES_JANUARY
    /\ Len(file[1]) >= 1

(***************************************************************************)
(* C8.  Two runs of the scan, sampling and writing over the same lines     *)
(* with the same configuration write the same rows in the same order,      *)
(* also when the filtered population is larger than the target sample      *)
(* size.                                                                   *)
(***************************************************************************)
C8_RerunWritesSameTable ==
    (run = 2 /\ pc = "written") => file[1] = first[1].output_rows

(***************************************************************************)
(* C9.  A run that met a fault (the archive is missing, or reading raised  *)
(* after any number of lines and games) has ended without sampling and     *)
(* without writing: the output file is as it was when the run started      *)
(* (absent in a first run, the first run's rows in a second one), and the  *)
(* run takes no further step.                                              *)
(***************************************************************************)
Faulted == diag # None \/ pc = "not_found"

C9_FaultWritesNothing ==
    Faulted =>
        /\ pc \in {"fatal", "not_found"}
        /\ result = "returned"
        /\ sampling = None
        /\ file = IF run = 1 THEN NoFile ELSE <<first[1].output_rows>>
        /\ ~ ENABLED NextRerun

\* the second run over an archive met a fault after aggregating a game into
\* the table, with the first run's output on disk
C9_Witness ==
    /\ pc = "fatal"
    /\ run = 2
    /\ game_count >= 1
    /\ player_stats.keys # <<>>
    /\ file # NoFile

\* the index of the last start marker among the first n lines of a stream
\* (0: none)
RECURSIVE LastMarker(_, _)
LastMarker(stream, n) ==
    IF n = 0 THEN 0
    ELSE IF EVENT_RE(stream[n]) THEN n
    ELSE LastMarker(stream, n - 1)

\* the tags of lines m..n of a stream
RECURSIVE TagsOf(_, _, _)
TagsOf(stream, m, n) ==
    IF n < m THEN EmptyGame
    ELSE LET before == TagsOf(stream, m, n - 1)
         IN  IF TAG_RE(stream[n]) THEN Put(before, stream[n]) ELSE before

\* the tags of the header open after the first n lines of a stream
OpenHeader(stream, n) ==
    IF LastMarker(stream, n) = 0 THEN EmptyGame
    ELSE TagsOf(stream, LastMarker(stream, n), n)

(***************************************************************************)
(* C10.  When the scan aborts on a fault after n lines of the stream, the  *)
(* snapshot it prints holds n as line number, line n as last line, and     *)
(* the tags read since the most recent start marker as the open header;    *)
(* and the run ends by raising one failure to its caller.                  *)
(***************************************************************************)
C10_SnapshotAndFailure ==
    (pc = "fatal" /\ archive # None) =>
        LET stream == archive[1]
            n == Len(stream) - Len(todo)
        IN  /\ diag[1].line_number = n
            /\ n > 0 => diag[1].last_processed_line = stream[n]
            /\ diag[1].current_game = OpenHeader(stream, n)
            /\ result = "raised"

(***************************************************************************)
(* C11.  A stream without a game that passes the two filters (the empty    *)
(* stream among them), or one in which no player reaches the minimum       *)
(* number of games, is scanned and sampled without error: after the scan   *)
(* the sampling step can be taken, it yields no row, and the file that is  *)
(* written holds the header line and no data row.                          *)
(***************************************************************************)
NothingToSample(min_games) ==
    passing = 0 \/ FilteredPopulation(player_stats, min_games) = {}

C11_HeaderOnlyOutput ==
    /\ pc = "scanned" => ENABLED Sample
    /\ (sampling # None /\ NothingToSample(sampling[1].MIN_GAMES_JANUARY))
       => /\ sampling[1].output_rows = <<>>
          /\ pc = "sampled" => ENABLED WriteOutput
          /\ pc = "written" => (file = << <<>> >> /\ result = "returned")
          /\ diag = None

\* the table holds a player, no player reaches the threshold, and the
\* header-only file was written
C11_Witness ==
    /\ pc = "written"
    /\ player_stats.keys # <<>>
    /\ FilteredPopulation(player_stats, sampling[1].MIN_GAMES_JANUARY) = {}
    /\ file = << <<>> >>

\* the contributions made so far to `player`
ContributionsTo(player) ==
    {contributions[i] : i \in {j \in 1..Len(contributions) :
                                  contributions[j].player = player}}

(***************************************************************************)
(* C12.  At every point of a scan, for every player of the table, every    *)
(* rating contributed to that player so far lies between the entry's       *)
(* min_rating and max_rating; and an entry has no contribution only if it  *)
(* is not in the table.                                                    *)
(***************************************************************************)
C12_RatingsWithinExtremes ==
    /\ \A p \in Players(player_stats) :
           /\ ContributionsTo(p) # {}
           /\ \A c \in ContributionsTo(p) :
                  /\ player_stats.val[p].min_rating <= c.rating
                  /\ c.rating <= player_stats.val[p].max_rating
    /\ \A i \in 1..Len(contributions) :
           contributions[i].player \in Players(player_stats)

\* a player received a lower rating after a higher one, and the scan went on
C12_Witness ==
    /\ pc = "scan"
    /\ \E i, j \in 1..Len(contributions) :
           /\ i < j
           /\ contributions[i].player = contributions[j].player
           /\ contributions[j].rating < contributions[i].rating
           /\ contributions[i].rating <= MAX_RATING

(***************************************************************************)
(* C13.  At every point of a scan, every entry of the table (each has at   *)
(* least one contribution) has earliest_time <= latest_time, whatever the  *)
(* parsable timestamps of the games, those before 1900 and after 2099      *)
(* included.                                                               *)
(***************************************************************************)
C13_EarliestNotAfterLatest ==
    \A p \in Players(player_stats) :
        /\ ContributionsTo(p) # {}
        /\ ~DtLess(player_stats.val[p].latest_time,
                   player_stats.val[p].earliest_time)

\* the scan is on, and a player's contributions are all dated after 2099 or
\* all dated before 1900
C13_Witness ==
    /\ pc = "scan"
    /\ \E p \in Players(player_stats) :
           \/ \A c \in ContributionsTo(p) : c.time[1] > 2099
           \/ \A c \in ContributionsTo(p) : c.time[1] < 1900

(***************************************************************************)
(* C14.  At every point of a scan, every entry of the table has            *)
(* rating_count = games, that number being the number of contributions     *)
(* made to the player, also after a game with the same name as White and   *)
(* as Black.                                                               *)
(***************************************************************************)
C14_RatingCountEqualsGames ==
    \A p \in Players(player_stats) :
        /\ player_stats.val[p].rating_count = player_stats.val[p].games
        /\ player_stats.val[p].games =
               Cardinality({i \in 1..Len(contributions) :
                               contributions[i].player = p})

\* the first aggregated game had the same name on both sides, updated the
\* player twice, and the scan went on
C14_Witness ==
    /\ pc = "scan"
    /\ game_count = 1
    /\ Len(contributions) = 2
    /\ contributions[1].player = contributions[2].player
    /\ player_stats.val[contributions[1].player].games = 2

(***************************************************************************)
(* C15.  Across every step of a scan, every entry of the table stays in    *)
(* the table, at its place, and changes only monotonically: games and      *)
(* rating_count do not decrease, min_rating does not increase, max_rating  *)
(* does not decrease, earliest_time does not increase, latest_time does    *)
(* not decrease.                                                           *)
(***************************************************************************)
C15_EntriesChangeMonotonically ==
    [][pc = "scan" =>
         /\ Len(player_stats'.keys) >= Len(player_stats.keys)
         /\ SubSeq(player_stats'.keys, 1, Len(player_stats.keys)) =
                player_stats.keys
         /\ \A p \in Players(player_stats) :
                LET old == player_stats.val[p]
                    new == player_stats'.val[p]
                IN  /\ p \in Players(player_stats')
                    /\ new.games >= old.games
                    /\ new.rating_count >= old.rating_count
                    /\ new.min_rating <= old.min_rating
                    /\ new.max_rating >= old.max_rating
                    /\ ~DtLess(old.earliest_time, new.earliest_time)
                    /\ ~DtLess(new.latest_time, old.latest_time)]_vars

\* the scan is on and an entry was updated by a game older than one that
\* had updated it before: its time bounds and its rating bounds differ
C15_Witness ==
    /\ pc = "scan"
    /\ \E i, j \in 1..Len(contributions) :
           /\ i < j
           /\ contributions[i].player = contributions[j].player
           /\ DtLess(contributions[j].time, contributions[i].time)
    /\ \E p \in Players(player_stats) :
           /\ player_stats.val[p].min_rating < player_stats.val[p].max_rating
           /\ DtLess(player_stats.val[p].earliest_time,
                     player_stats.val[p].latest_time)

(***************************************************************************)
(* C16.  At every point of a scan, and so after it, the names that have    *)
(* an entry in the table are exactly the names that appeared as White or   *)
(* Black in a game with an accepted time control and at least one valid    *)
(* side rating <= the ceiling: the entry exists from the first such        *)
(* appearance on, and no other name has an entry.                          *)
(***************************************************************************)
C16_EntryIffQualifyingAppearance == Players(player_stats) = appeared

ProcessesHeader ==
    /\ pc = "scan"
    /\ Truthy(current_game)
    /\ \/ pc' = "scanned"
       \/ (pc' = "scan" /\ line_number' = line_number + 1
             /\ EVENT_RE(last_processed_line'))

(***************************************************************************)
(* C18.  Processing a completed header whose TimeControl is missing or is  *)
(* none of "600+0", "600+5", "900+10" leaves the player table as it is, no *)
(* entry created or modified, and raises the game counter by exactly one.  *)
(***************************************************************************)
C18_OtherTimeControlOnlyCounts ==
    [][(/\ ProcessesHeader
        /\ current_game["TimeControl"] \notin
               {TARGET_TIMECONTROL, ALTERNATE_TIMECONTROL_1,
                ALTERNATE_TIMECONTROL_2})
       => /\ player_stats' = player_stats
          /\ game_count' = game_count + 1]_vars

\* the stream ended on a header with names, ratings under the ceiling, a
\* parsable timestamp and a time control outside the accepted three; it was
\* counted and the table is empty
C18_Witness ==
    /\ pc = "scanned"
    /\ game_count = 1
    /\ current_game["TimeControl"] = OtherTimeControl
    /\ current_game["White"] # None
    /\ ValidRating(current_game["WhiteElo"])
    /\ RatingOf(current_game["WhiteElo"]) <= MAX_RATING
    /\ ParsableTimestamp(current_game)
    /\ player_stats.keys = <<>>

\* the sides of `game` that have a name and a valid rating
ValidSides(game) ==
    {side \in {"White", "Black"} :
        game[side] # None /\ ValidRating(game[EloTag(side)])}

(***************************************************************************)
(* C19.  Processing a header with an accepted time control and a parsable  *)
(* timestamp changes the table if and only if at least one side has a      *)
(* valid rating (an integer > 0) that is <= the ceiling.  When it does,    *)
(* every side with a valid rating and a name is updated once, a side whose *)
(* own rating is above the ceiling included; when no valid rating is <=    *)
(* the ceiling, no side is updated.                                        *)
(***************************************************************************)
C19_UpdatesIffSomeSideUnderCeiling ==
    [][(/\ ProcessesHeader
        /\ PassesTimeControl(current_game)
        /\ ParsableTimestamp(current_game))
       => IF PassesRatingCeiling(current_game)
          THEN /\ player_stats' # player_stats
               /\ \A p \in AllNames :
                      Games(player_stats', p) =
                          Games(player_stats, p)
                          + Cardinality({side \in ValidSides(current_game) :
                                            current_game[side] = p})
          ELSE player_stats' = player_stats]_vars

\* a header whose UTCDate or UTCTime is missing or malformed
TimestampMissingOrMalformed(game) ==
    \/ game["UTCDate"] \in {None, DateBad}
    \/ game["UTCTime"] \in {None, TimeBad}

(***************************************************************************)
(* C20.  Processing a header whose UTCDate or UTCTime is missing or        *)
(* malformed raises no error and leaves the player table as it is, also    *)
(* when the time control is accepted and a valid side rating is <= the     *)
(* ceiling; the game counter still goes up by one.                         *)
(***************************************************************************)
C20_UnparsableTimestampOnlyCounts ==
    [][(ProcessesHeader /\ TimestampMissingOrMalformed(current_game))
       => /\ player_stats' = player_stats
          /\ game_count' = game_count + 1
          /\ diag' = None
          /\ pc' # "fatal"]_vars

\* the stream ended on a header with two names, two valid ratings under the
\* ceiling, an accepted time control and a malformed UTCTime, after a header
\* of the same kind without a UTCDate; both were counted, the table is empty
C20_Witness ==
    /\ pc = "scanned"
    /\ game_count = 2
    /\ current_game["UTCTime"] = TimeBad
    /\ PassesTimeControl(current_game)
    /\ BothSidesValid(current_game)
    /\ PassesRatingCeiling(current_game)
    /\ passing = 2
    /\ player_stats.keys = <<>>

\* the contributions to `player` with the smallest / the largest timestamp
EarliestContributions(player) ==
    {c \in ContributionsTo(player) :
        \A d \in ContributionsTo(player) : ~DtLess(d.time, c.time)}

LatestContributions(player) ==
    {c \in ContributionsTo(player) :
        \A d \in ContributionsTo(player) : ~DtLess(c.time, d.time)}

(***************************************************************************)
(* C21.  At every point of a scan, for every player of the table:          *)
(* earliest_time is the smallest timestamp contributed to the player and   *)
(* earliest_rating the rating of a contribution that carries it;           *)
(* latest_time is the largest timestamp and latest_rating the rating of a  *)
(* contribution that carries it.  So the first contribution sets all four  *)
(* fields to its own values, whatever its parsable timestamp.              *)
(***************************************************************************)
C21_SnapshotsAtExtremeTimestamps ==
    \A p \in Players(player_stats) :
        /\ \E c \in EarliestContributions(p) :
               /\ player_stats.val[p].earliest_time = c.time
               /\ player_stats.val[p].earliest_rating = c.rating
        /\ \E c \in LatestContributions(p) :
               /\ player_stats.val[p].latest_time = c.time
               /\ player_stats.val[p].latest_rating = c.rating

(***************************************************************************)
(* C22.  A start marker read while a header is open hands that header to   *)
(* the aggregation and then leaves exactly its own Event tag in the new    *)
(* header.  So at every point of a scan the open header, which is what is  *)
(* emitted at the next start marker or at the end of the stream, maps each *)
(* tag name to its last value among the lines read since the most recent   *)
(* start marker, and holds no tag of a line before that marker.            *)
(***************************************************************************)
C22_HeaderScopedToItsGame ==
    /\ pc \in {"scan", "scanned"} =>
           current_game =
               OpenHeader(archive[1], Len(archive[1]) - Len(todo))
    /\ (pc = "scan" /\ line_number > 0 /\ EVENT_RE(last_processed_line))
           => current_game = Put(EmptyGame, last_processed_line)

\* a step of the loop on a line that is no tag: a blank line or move text,
\* or a line that starts with '[' and does not match the tag pattern
ReadsIgnorableLine ==
    /\ pc = "scan"
    /\ pc' = "scan"
    /\ line_number' = line_number + 1
    /\ last_processed_line' \in {BlankLine, BadBracketLine}

(***************************************************************************)
(* C23.  Processing a blank line, move text, or a line that starts with    *)
(* '[' and is no tag leaves the open header (so also whether a game is     *)
(* open), the game counter and the player table as they are; the line      *)
(* number goes up by one and the last-processed line becomes that line.    *)
(***************************************************************************)
C23_IgnorableLineChangesNothing ==
    [][ReadsIgnorableLine =>
         /\ current_game' = current_game
         /\ Truthy(current_game') = Truthy(current_game)
         /\ game_count' = game_count
         /\ player_stats' = player_stats
         /\ diag' = diag /\ sampling' = sampling /\ file' = file]_vars

\* a line starting with '[' that is no tag was read with a header open, a
\* game counted and a player in the table
C23_Witness ==
    /\ pc = "scan"
    /\ last_processed_line = BadBracketLine
    /\ current_game["Event"] # None
    /\ game_count >= 1
    /\ player_stats.keys # <<>>

(***************************************************************************)
(* C27.  The end of the stream processes the open game as a start marker   *)
(* does: for a stream S, the scan of S followed by one more game with a    *)
(* time control outside the accepted ones ends with the player table the   *)
(* scan of S ended with, and with a game_count higher by exactly one.      *)
(***************************************************************************)
C27_EndOfStreamAsStartMarker ==
    (run = 2 /\ pc = "scanned" /\ first[1].relation = "extended")
    => /\ player_stats = first[1].player_stats
       /\ game_count = first[1].game_count + 1

\* both scans are done; the last game of S, which has the same player on
\* both sides, gave that player two games, and S has two games
C27_Witness ==
    /\ run = 2
    /\ pc = "scanned"
    /\ first[1].relation = "extended"
    /\ first[1].game_count = 2
    /\ Len(contributions) >= 2
    /\ contributions[Len(contributions)].player =
           contributions[Len(contributions) - 1].player
    /\ contributions[Len(contributions)].rating #
           contributions[Len(contributions) - 1].rating

\* the fields of an entry that the order of the games is said not to change
OrderFreeFields(stats) ==
    [games |-> stats.games,
     min_rating |-> stats.min_rating,
     max_rating |-> stats.max_rating,
     rating_sum |-> stats.rating_sum,
     rating_count |-> stats.rating_count,
     earliest_time |-> stats.earliest_time,
     latest_time |-> stats.latest_time]

(***************************************************************************)
(* C28.  The scan of the games of a stream in another order ends with the  *)
(* same set of players in the table, each with the same games, min_rating, *)
(* max_rating, rating_sum, rating_count, earliest_time and latest_time,    *)
(* and with the same game_count.                                           *)
(***************************************************************************)
C28_OrderOfGamesIrrelevant ==
    (run = 2 /\ pc = "scanned" /\ first[1].relation = "reordered")
    => /\ Players(player_stats) = Players(first[1].player_stats)
       /\ \A p \in Players(player_stats) :
              OrderFreeFields(player_stats.val[p]) =
                  OrderFreeFields(first[1].player_stats.val[p])
       /\ game_count = first[1].game_count

\* both scans are done; the order of the games shows in the table (in the
\* order of its keys or in a rating snapshot), and a player has two
\* different ratings at two different times
C28_Witness ==
    /\ run = 2
    /\ pc = "scanned"
    /\ first[1].relation = "reordered"
    /\ player_stats # first[1].player_stats
    /\ \E p \in Players(player_stats) :
           /\ player_stats.val[p].min_rating < player_stats.val[p].max_rating
           /\ DtLess(player_stats.val[p].earliest_time,
                     player_stats.val[p].latest_time)

\* the position in `contributions` of the first contribution to `player`
\* among those in `among`
FirstOf(player, among) ==
    CHOOSE i \in 1..Len(contributions) :
        /\ contributions[i] \in among
        /\ \A j \in 1..(i - 1) : contributions[j] \notin among

\* two or more contributions to `player` are among those in `among`
Tied(among) ==
    Cardinality({i \in 1..Len(contributions) : contributions[i] \in among})
        >= 2

(***************************************************************************)
(* C29.  At every point of a scan, for every player of the table: when two *)
(* or more contributions carry the player's smallest timestamp,            *)
(* earliest_rating is the rating of the first of them in stream order;     *)
(* when two or more carry the largest one, latest_rating is the rating of  *)
(* the first of them.  A later game with an equal timestamp replaces       *)
(* neither.                                                                *)
(***************************************************************************)
C29_FirstOfTiedTimestampsKept ==
    \A p \in Players(player_stats) :
        /\ Tied(EarliestContributions(p)) =>
               player_stats.val[p].earliest_rating =
                   contributions[FirstOf(p, EarliestContributions(p))].rating
        /\ Tied(LatestContributions(p)) =>
               player_stats.val[p].latest_rating =
                   contributions[FirstOf(p, LatestContributions(p))].rating

(***************************************************************************)
(* The games of a stream given to a companion program: a game runs from a  *)
(* start marker up to, not including, the next one.                        *)
(***************************************************************************)
\* the position of the k-th of the start markers, whose positions are
\* `starts`
MarkerAt(starts, k) ==
    CHOOSE i \in starts : Cardinality({j \in starts : j <= i}) = k

\* the lines of the k-th game of `stream`
GameBlock(stream, starts, k) ==
    SubSeq(stream, MarkerAt(starts, k),
           IF k < Cardinality(starts)
           THEN MarkerAt(starts, k + 1) - 1
           ELSE Len(stream))

\* the start markers of the filter's stream (line 88)
TrimMarkers ==
    {i \in 1..Len(trim.stream) : EVENT_RE(Strip(trim.stream[i]))}

TrimGames == 1..Cardinality(TrimMarkers)

TrimGame(k) == GameBlock(trim.stream, TrimMarkers, k)

\* the game has a TimeControl tag with one of the target values
HasTargetTimeControl(block) ==
    \E i \in 1..Len(block) :
        /\ TAG_RE(Strip(block[i]))
        /\ block[i].name = "TimeControl"
        /\ block[i].value \in TARGET_TIMECONTROLS

\* the blocks written while the k-th game was the current one
WritesOf(k) == {i \in 1..Len(trim.writes) : trim.writes[i].game = k}

(***************************************************************************)
(* C24.  When the filter has finished: every game with a target time       *)
(* control was written exactly once, no other game and nothing that is not *)
(* a game was written, and game_count_filtered is the number of games with *)
(* a target time control.                                                  *)
(***************************************************************************)
C24_TargetGamesWrittenOnce ==
    trim.pc = "done" =>
        /\ \A k \in TrimGames :
               Cardinality(WritesOf(k)) =
                   IF HasTargetTimeControl(TrimGame(k)) THEN 1 ELSE 0
        /\ \A i \in 1..Len(trim.writes) : trim.writes[i].game \in TrimGames
        /\ trim.game_count_filtered =
               Cardinality({k \in TrimGames :
                               HasTargetTimeControl(TrimGame(k))})

(***************************************************************************)
(* C25.  When the filter has finished: every block written for a game is   *)
(* the game's lines from its start marker up to the next start marker      *)
(* (header lines, move line, trailing blank line), in input order and      *)
(* unmodified, and the output is these blocks one after the other.         *)
(***************************************************************************)
C25_WholeGameWritten ==
    trim.pc = "done" =>
        /\ \A i \in 1..Len(trim.writes) :
               trim.writes[i].game \in TrimGames =>
                   trim.writes[i].lines = TrimGame(trim.writes[i].game)
        /\ trim.text_output_stream =
               Flatten([i \in 1..Len(trim.writes) |-> trim.writes[i].lines])

(***************************************************************************)
(* C30.  At every point of the filter's scan, whatever the stream begins   *)
(* with, game_count_filtered <= game_count_total.                          *)
(***************************************************************************)
C30_FilteredAtMostTotal ==
    trim.game_count_filtered <= trim.game_count_total

\* the start markers of the printer's stream (line 43)
PrintMarkers ==
    {i \in 1..Len(validate.stream) :
        StartsWithEvent(Strip(validate.stream[i]))}

PrintGames == 1..Cardinality(PrintMarkers)

\* a game as it is printed: its lines stripped, the empty ones left out
Complete(block) ==
    LET stripped == [i \in 1..Len(block) |-> Strip(block[i])]
    IN  SelectSeq(stripped, LAMBDA line : line # BlankLine)

(***************************************************************************)
(* C26.  The printer never prints more than TARGET_GAMES_TO_PRINT games;   *)
(* and when it has finished on a stream of at least TARGET_GAMES_TO_PRINT  *)
(* games, it has printed exactly the first TARGET_GAMES_TO_PRINT games of  *)
(* the stream, each once, complete and in stream order.                    *)
(***************************************************************************)
C26_FirstGamesPrinted ==
    /\ Len(validate.printed) <= TARGET_GAMES_TO_PRINT
    /\ (/\ validate.pc = "done"
        /\ Cardinality(PrintGames) >= TARGET_GAMES_TO_PRINT)
       => validate.printed =
              [k \in 1..TARGET_GAMES_TO_PRINT |->
                  Complete(GameBlock(validate.stream, PrintMarkers, k))]

====
